---- MODULE Spec2Model ----
(***************************************************************************)
(* Model of the report-processing pipeline of src/lib/reportProcessing.ts  *)
(* (processReportWithAI, processLargePdfWithClaudeAI, mergeResults) and of *)
(* the status fields of the document record its callers read.              *)
(*                                                                         *)
(* A JavaScript object is a function whose DOMAIN is the set of its own    *)
(* keys: an absent (undefined) property is a key outside the DOMAIN.  An   *)
(* array is a sequence.  An optional value is <<>> (absent) or <<v>>.      *)
(***************************************************************************)
EXTENDS Integers, Sequences, FiniteSets, TLC

VARIABLES
    status,        \* reports/<id>.status
    errorMessage,  \* reports/<id>.errorMessage, <<>> when the field is unset
    reportData,    \* reportData/<id>: <<>> or <<the stored document>>
    pc,            \* per run: position in processReportWithAI
    chunkIdx,      \* per run: loop variable i of processLargePdfWithClaudeAI
    results,       \* per run: the results array of processLargePdfWithClaudeAI
    error,         \* per run: the error caught by the outer catch, <<>> or <<message>>
    returned,      \* per run: <<>> while running, else <<"true">>, <<"false">> or <<"rejected">>
    attempts,      \* history, per run: outcome of each oracle call made so far
    handed,        \* history, per run: <<>>, or <<[doc, stored]>>: the document handed
                   \* to setDoc and whether setDoc stored it
    writes,        \* history, per run: its updateDoc calls, [status, ok] each
    statusBy,      \* history: <<>>, or <<r>>: the run whose write set the current status
    pdfChunks,     \* the number of chunks the document's extracted text splits into
    apiKey,        \* whether process.env holds a Claude API key
    mIn,           \* input of a stand-alone mergeResults call
    mOut,          \* its result: <<>> before the call, <<merged>> after
    tIn,           \* text argument of a stand-alone splitTextIntoChunks call
    tMax,          \* its maxTokens argument
    tOut,          \* its result: <<>> before the call, <<chunks>> after
    cIn,           \* the text of an oracle response as callClaudeAPI receives it
    cOut           \* <<>> before the response is parsed, <<outcome>> after

vars == <<status, errorMessage, reportData, pc, chunkIdx, results, error,
          returned, attempts, handed, writes, statusBy, pdfChunks, apiKey,
          mIn, mOut, tIn, tMax, tOut, cIn, cOut>>

pipeVars == <<status, errorMessage, reportData, pc, chunkIdx, results, error,
              returned, attempts, handed, writes, statusBy, pdfChunks, apiKey>>

mergeVars == <<mIn, mOut>>

splitVars == <<tIn, tMax, tOut>>

parseVars == <<cIn, cOut>>

----------------------------------------------------------------------------
(* Bounds *)

\* largest number of partial records handed to a stand-alone mergeResults call
MaxParts == 3

\* number of chunks the document's text splits into is 0..MaxChunks
MaxChunks == 2

\* the runs that may be in flight for the one document identifier
Runs == {"r1", "r2"}

----------------------------------------------------------------------------
(* JavaScript object helpers *)

Has(obj, key) == key \in DOMAIN obj

\* obj[key] = val
SetProp(obj, key, val) ==
    [k \in DOMAIN obj \cup {key} |-> IF k = key THEN val ELSE obj[k]]

Range(seq) == {seq[n] : n \in 1..Len(seq)}

----------------------------------------------------------------------------
(* mergeResults *)

scalarProps == <<"libraryOverview", "collectionOverview", "usageStatistics">>

arrayProps == <<"collectionData", "circulationData", "revenueData", "expenseData",
                "programData", "venueData", "summerReadingData">>

\* the cap of slice(0, 5) on each findings list
FindingsCap == 5

\* typeof item[key] === 'number' && key !== 'name': every property of an entry
\* other than its name holds a number
IsNumericProp(item, key) == key # "name" /\ item[key] \in Int

\* a merge that fills the fields the first section lacks from later sections
MergeScalarProp_FieldFill(merged, result, prop) ==
    IF ~Has(result, prop) THEN merged
    ELSE IF ~Has(merged, prop) THEN SetProp(merged, prop, result[prop])
    ELSE SetProp(merged, prop,
            [k \in DOMAIN merged[prop] \cup DOMAIN result[prop] |->
                IF k \in DOMAIN merged[prop] THEN merged[prop][k] ELSE result[prop][k]])

\* merged[prop] = result[prop] whatever the record holds: a record without the
\* section takes it out of the merged record again
MergeScalarProp_Assign(merged, result, prop) ==
    IF Has(result, prop) THEN SetProp(merged, prop, result[prop])
    ELSE [k \in DOMAIN merged \ {prop} |-> merged[k]]

\* one pass of the body of the first loop for one section: first non-null value
MergeScalarProp(merged, result, prop) ==
    IF Has(result, prop) /\ ~Has(merged, prop)
    THEN SetProp(merged, prop, result[prop])
    ELSE merged

RECURSIVE MergeScalarProps(_, _, _)
MergeScalarProps(merged, result, n) ==
    IF n > Len(scalarProps) THEN merged
    ELSE MergeScalarProps(MergeScalarProp(merged, result, scalarProps[n]), result, n + 1)

RECURSIVE MergeScalars(_, _, _)
MergeScalars(merged, rs, n) ==
    IF n > Len(rs) THEN merged
    ELSE MergeScalars(MergeScalarProps(merged, rs[n], 1), rs, n + 1)

\* existingItem[key] = item[key]: the later value replaces the earlier one
AddNumber_Overwrite(existingItem, item, key) == SetProp(existingItem, key, item[key])

\* existingItem[key] = existingItem[key] || item[key]: the first number that
\* is not zero is kept
AddNumber_KeepFirst(existingItem, item, key) ==
    SetProp(existingItem, key,
            IF Has(existingItem, key) /\ existingItem[key] # 0
            THEN existingItem[key] ELSE item[key])

\* existingItem[key] = (existingItem[key] || 0) + item[key]
AddNumber(existingItem, item, key) ==
    SetProp(existingItem, key,
            (IF Has(existingItem, key) THEN existingItem[key] ELSE 0) + item[key])

\* for (const key of Object.keys(item)) if numeric: add into existingItem.
\* The keys are visited one by one; the order does not matter since each
\* key touches its own property only.
RECURSIVE MergeNumeric(_, _, _)
MergeNumeric(existingItem, item, keys) ==
    IF keys = {} THEN existingItem
    ELSE LET key == CHOOSE k \in keys : TRUE
             next == IF IsNumericProp(item, key)
                     THEN AddNumber(existingItem, item, key)
                     ELSE existingItem
         IN  MergeNumeric(next, item, keys \ {key})

\* plain concatenation: every item is pushed, seen before or not
MergeItem_Append(acc, item) ==
    [items   |-> Append(acc.items, item),
     nameMap |-> SetProp(acc.nameMap, item.name, Len(acc.items) + 1)]

\* items.unshift({...item}): a new name goes to the front of the list
MergeItem_Unshift(acc, item) ==
    IF item.name \in DOMAIN acc.nameMap
    THEN LET index == acc.nameMap[item.name]
         IN  [items   |-> [acc.items EXCEPT
                             ![index] = MergeNumeric(acc.items[index], item, DOMAIN item)],
              nameMap |-> acc.nameMap]
    ELSE [items   |-> <<item>> \o acc.items,
          nameMap |-> SetProp([k \in DOMAIN acc.nameMap |-> acc.nameMap[k] + 1],
                              item.name, 1)]

\* body of the loop over one array's items; acc = [items, nameMap], nameMap
\* maps a name to the (1-based) position of its entry in items
MergeItem(acc, item) ==
    IF item.name \in DOMAIN acc.nameMap
    THEN LET index == acc.nameMap[item.name]
         IN  [items   |-> [acc.items EXCEPT
                             ![index] = MergeNumeric(acc.items[index], item, DOMAIN item)],
              nameMap |-> acc.nameMap]
    ELSE [items   |-> Append(acc.items, item),
          nameMap |-> SetProp(acc.nameMap, item.name, Len(acc.items) + 1)]

RECURSIVE MergeItems(_, _, _)
MergeItems(acc, arr, n) ==
    IF n > Len(arr) THEN acc
    ELSE MergeItems(MergeItem(acc, arr[n]), arr, n + 1)

\* loop over results for one array property (if (!arr) continue)
RECURSIVE MergeArrayProp(_, _, _, _)
MergeArrayProp(acc, rs, prop, n) ==
    IF n > Len(rs) THEN acc
    ELSE IF ~Has(rs[n], prop) THEN MergeArrayProp(acc, rs, prop, n + 1)
    ELSE MergeArrayProp(MergeItems(acc, rs[n][prop], 1), rs, prop, n + 1)

\* merged[prop] = items without the test of items.length: a section no record
\* contains comes out as an empty list
RECURSIVE MergeArrays_AlwaysSet(_, _, _)
MergeArrays_AlwaysSet(merged, rs, n) ==
    IF n > Len(arrayProps) THEN merged
    ELSE LET prop  == arrayProps[n]
             items == MergeArrayProp([items |-> <<>>, nameMap |-> <<>>], rs, prop, 1).items
         IN  MergeArrays_AlwaysSet(SetProp(merged, prop, items), rs, n + 1)

\* loop over arrayProps; a section is set only if (items.length > 0)
RECURSIVE MergeArrays(_, _, _)
MergeArrays(merged, rs, n) ==
    IF n > Len(arrayProps) THEN merged
    ELSE LET prop  == arrayProps[n]
             items == MergeArrayProp([items |-> <<>>, nameMap |-> <<>>], rs, prop, 1).items
         IN  MergeArrays(IF Len(items) > 0 THEN SetProp(merged, prop, items) ELSE merged,
                         rs, n + 1)

\* a plain array instead of a Set: every string is pushed, seen before or not
AddAll_Push(set, list, n) == set \o SubSeq(list, n, Len(list))

\* Set.add for each element of a list, in order (a Set keeps insertion order)
RECURSIVE AddAll(_, _, _)
AddAll(set, list, n) ==
    IF n > Len(list) THEN set
    ELSE AddAll(IF list[n] \in Range(set) THEN set ELSE Append(set, list[n]), list, n + 1)

\* the loop collecting result.keyFindings?.[listName] over all results
RECURSIVE CollectFindings(_, _, _, _)
CollectFindings(set, rs, listName, n) ==
    IF n > Len(rs) THEN set
    ELSE IF Has(rs[n], "keyFindings") /\ Has(rs[n].keyFindings, listName)
         THEN CollectFindings(AddAll(set, rs[n].keyFindings[listName], 1), rs, listName, n + 1)
         ELSE CollectFindings(set, rs, listName, n + 1)

\* Array.from(set).slice(0, 5)
Slice(list, cap) == SubSeq(list, 1, IF Len(list) < cap THEN Len(list) ELSE cap)

MergeFindings(merged, rs) ==
    IF \E n \in 1..Len(rs) : Has(rs[n], "keyFindings")
    THEN SetProp(merged, "keyFindings",
           [strengths |-> Slice(CollectFindings(<<>>, rs, "strengths", 1), FindingsCap),
            areasForDevelopment |->
                Slice(CollectFindings(<<>>, rs, "areasForDevelopment", 1), FindingsCap)])
    ELSE merged

mergeResults(rs) == MergeFindings(MergeArrays(MergeScalars(<<>>, rs, 1), rs, 1), rs)

----------------------------------------------------------------------------
(* The stand-alone mergeResults call *)

\* entries of the { name, value } sections
A1 == [name |-> "Adult Fiction", value |-> 10]
A2 == [name |-> "Adult Fiction", value |-> 5]
B1 == [name |-> "Video Materials", value |-> 3]
B0 == [name |-> "Video Materials", value |-> 0]

\* entries of summerReadingData; the oracle may omit a field it did not find
SummerFull == [name |-> "Children", registered |-> 14, sessions |-> 12, attendance |-> 464]
SummerPart == [name |-> "Children", registered |-> 1, sessions |-> 2]
SummerAtt  == [name |-> "Children", attendance |-> 8]

\* scalar-group sections
OverviewX == [populationServed |-> 100]
OverviewY == [populationServed |-> 398, annualVisits |-> 4911]
UsageU    == [eBookCirculation |-> 364]

\* the partial records a stand-alone call draws its input from
MergeInputs ==
    { <<>>,
      [libraryOverview |-> OverviewX],
      [libraryOverview |-> OverviewY, usageStatistics |-> UsageU],
      [collectionData |-> <<>>],
      [collectionData |-> <<A1>>],
      [collectionData |-> <<A2, B1>>],
      [collectionData |-> <<B0, A1>>],
      [collectionData |-> <<A1, A2>>],
      [collectionData |-> <<B1>>, circulationData |-> <<A2>>],
      [collectionData |-> <<[name |-> "Audio Materials", value |-> 7],
                            [name |-> "Other Materials", value |-> 0]>>],
      [summerReadingData |-> <<SummerFull>>],
      [summerReadingData |-> <<SummerPart>>],
      [summerReadingData |-> <<SummerAtt, SummerPart>>],
      [keyFindings |-> [strengths |-> <<"funding", "programs">>,
                        areasForDevelopment |-> <<"virtual">>]],
      [keyFindings |-> [strengths |-> <<"programs", "Funding", "visits", "hours">>]],
      [keyFindings |-> [strengths |-> <<"outreach", "funding", "grants">>,
                        areasForDevelopment |-> <<"space", "virtual">>]],
      [libraryOverview |-> OverviewY, collectionData |-> <<A2>>,
       summerReadingData |-> <<SummerAtt>>] }

RECURSIVE SeqsUpTo(_, _)
SeqsUpTo(S, n) ==
    IF n = 0 THEN {<<>>}
    ELSE LET shorter == SeqsUpTo(S, n - 1)
         IN  shorter \cup {Append(sq, x) : sq \in shorter, x \in S}

MergeInit ==
    /\ mIn \in SeqsUpTo(MergeInputs, MaxParts)
    /\ mOut = <<>>

\* const merged = mergeResults(results)
MergeCall ==
    /\ mOut = <<>>
    /\ mOut' = <<mergeResults(mIn)>>
    /\ UNCHANGED mIn

----------------------------------------------------------------------------
(* splitTextIntoChunks *)

\* A text is a sequence of characters.  Three characters stand for the three
\* classes the code tells apart: the line feed, other white space, and the
\* rest.
Chars == {"a", "sp", "nl"}

\* longest text handed to a stand-alone splitTextIntoChunks call
MaxText == 8

\* the maxTokens arguments of a stand-alone call; nothing in the function
\* restricts the number it is given
Budgets == {-1, 0, 1, 2}

charsPerToken == 4

\* \s
IsSpace(c) == c \in {"sp", "nl"}

\* /\n\s*\n/ tried at position q: the position of the last character of the
\* match, 0 if there is none.  \s* is greedy, so the match ends at the last
\* line feed of the white space that follows position q.
MatchEnd(text, q) ==
    LET ends == {k \in (q + 1)..Len(text) :
                    text[k] = "nl" /\ \A j \in (q + 1)..(k - 1) : IsSpace(text[j])}
    IN  IF text[q] = "nl" /\ ends # {}
        THEN CHOOSE k \in ends : \A other \in ends : other <= k
        ELSE 0

\* text.split(/\n\s*\n/) from position q on, p being the start of the current
\* piece: the leftmost match ends the piece
RECURSIVE SplitFrom(_, _, _)
SplitFrom(text, p, q) ==
    IF q > Len(text) THEN <<SubSeq(text, p, Len(text))>>
    ELSE LET e == MatchEnd(text, q)
         IN  IF e > 0
             THEN <<SubSeq(text, p, q - 1)>> \o SplitFrom(text, e + 1, e + 1)
             ELSE SplitFrom(text, p, q + 1)

split(text) == SplitFrom(text, 1, 1)

\* the separator the loop puts between the paragraphs of a chunk: '\n\n'
BlankLine == <<"nl", "nl">>

\* on a full chunk the paragraph is not kept: currentChunk = ''
ChunkLoop_DropsParagraph(paragraphs, n, chunks, currentChunk, maxChars) ==
    LET RECURSIVE Loop(_, _, _)
        Loop(k, cs, cur) ==
            IF k > Len(paragraphs)
            THEN IF cur # <<>> THEN Append(cs, cur) ELSE cs
            ELSE IF Len(cur) + Len(paragraphs[k]) > maxChars /\ Len(cur) > 0
                 THEN Loop(k + 1, Append(cs, cur), <<>>)
                 ELSE Loop(k + 1, cs,
                           cur \o (IF cur # <<>> THEN BlankLine ELSE <<>>) \o paragraphs[k])
    IN  Loop(n, chunks, currentChunk)

\* a paragraph longer than the budget is cut at the budget
ChunkLoop_CutsParagraph(paragraphs, n, chunks, currentChunk, maxChars) ==
    LET RECURSIVE Loop(_, _, _)
        Loop(k, cs, cur) ==
            IF k > Len(paragraphs)
            THEN IF cur # <<>> THEN Append(cs, cur) ELSE cs
            ELSE LET paragraph == paragraphs[k]
                 IN  IF Len(paragraph) > maxChars /\ maxChars > 0
                     THEN Loop(k + 1,
                               (IF cur # <<>> THEN Append(cs, cur) ELSE cs)
                                  \o <<SubSeq(paragraph, 1, maxChars)>>,
                               SubSeq(paragraph, maxChars + 1, Len(paragraph)))
                     ELSE IF Len(cur) + Len(paragraph) > maxChars /\ Len(cur) > 0
                          THEN Loop(k + 1, Append(cs, cur), paragraph)
                          ELSE Loop(k + 1, cs,
                                    cur \o (IF cur # <<>> THEN BlankLine ELSE <<>>)
                                        \o paragraph)
    IN  Loop(n, chunks, currentChunk)

\* the last chunk is pushed whether or not it is empty
ChunkLoop_AlwaysPush(paragraphs, n, chunks, currentChunk, maxChars) ==
    LET RECURSIVE Loop(_, _, _)
        Loop(k, cs, cur) ==
            IF k > Len(paragraphs)
            THEN Append(cs, cur)
            ELSE IF Len(cur) + Len(paragraphs[k]) > maxChars /\ Len(cur) > 0
                 THEN Loop(k + 1, Append(cs, cur), paragraphs[k])
                 ELSE Loop(k + 1, cs,
                           cur \o (IF cur # <<>> THEN BlankLine ELSE <<>>) \o paragraphs[k])
    IN  Loop(n, chunks, currentChunk)

\* the length test looks at the paragraph alone, not at the chunk it joins
ChunkLoop_IgnoresCurrent(paragraphs, n, chunks, currentChunk, maxChars) ==
    LET RECURSIVE Loop(_, _, _)
        Loop(k, cs, cur) ==
            IF k > Len(paragraphs)
            THEN IF cur # <<>> THEN Append(cs, cur) ELSE cs
            ELSE IF Len(paragraphs[k]) > maxChars /\ Len(cur) > 0
                 THEN Loop(k + 1, Append(cs, cur), paragraphs[k])
                 ELSE Loop(k + 1, cs,
                           cur \o (IF cur # <<>> THEN BlankLine ELSE <<>>) \o paragraphs[k])
    IN  Loop(n, chunks, currentChunk)

\* a budget that is not positive is taken to mean no limit
ChunkLoop_Unbounded(paragraphs, n, chunks, currentChunk, maxChars) ==
    LET RECURSIVE Loop(_, _, _)
        Loop(k, cs, cur) ==
            IF k > Len(paragraphs)
            THEN IF cur # <<>> THEN Append(cs, cur) ELSE cs
            ELSE IF maxChars > 0 /\ Len(cur) + Len(paragraphs[k]) > maxChars /\ Len(cur) > 0
                 THEN Loop(k + 1, Append(cs, cur), paragraphs[k])
                 ELSE Loop(k + 1, cs,
                           cur \o (IF cur # <<>> THEN BlankLine ELSE <<>>) \o paragraphs[k])
    IN  Loop(n, chunks, currentChunk)

\* for (const paragraph of paragraphs) { ... } if (currentChunk) chunks.push(...)
\* from paragraph n on
RECURSIVE ChunkLoop(_, _, _, _, _)
ChunkLoop(paragraphs, n, chunks, currentChunk, maxChars) ==
    IF n > Len(paragraphs)
    THEN IF currentChunk # <<>> THEN Append(chunks, currentChunk) ELSE chunks
    ELSE LET paragraph == paragraphs[n]
         IN  IF Len(currentChunk) + Len(paragraph) > maxChars /\ Len(currentChunk) > 0
             THEN ChunkLoop(paragraphs, n + 1, Append(chunks, currentChunk), paragraph,
                            maxChars)
             ELSE ChunkLoop(paragraphs, n + 1, chunks,
                            currentChunk \o (IF currentChunk # <<>> THEN BlankLine ELSE <<>>)
                                         \o paragraph,
                            maxChars)

splitTextIntoChunks(text, maxTokens) ==
    ChunkLoop(split(text), 1, <<>>, <<>>, maxTokens * charsPerToken)

SplitInit ==
    /\ tIn \in SeqsUpTo(Chars, MaxText)
    /\ tMax \in Budgets
    /\ tOut = <<>>

\* const chunks = splitTextIntoChunks(text, maxTokens)
SplitCall ==
    /\ tOut = <<>>
    /\ tOut' = <<splitTextIntoChunks(tIn, tMax)>>
    /\ UNCHANGED <<tIn, tMax>>

----------------------------------------------------------------------------
(* callClaudeAPI: from the text of the response to the parsed reply *)

\* The text of a response is a sequence of tokens: an opening brace (with
\* the key in front of it, if any), a closing brace, a code-fence marker
\* ```, and a word of prose.  White space is not a token, so trim() changes
\* nothing.
Tokens == {"{", "}", "f", "w"}

\* longest response text handed to the parsing step
MaxContent == 6

ParseFails == [ok |-> FALSE, value |-> <<>>, next |-> 0]

\* JSON.parse inside an object, from token k on: the members parsed so far
\* are acc.  A member is an object; prose or a fence marker is not JSON.  The
\* value of an object is the sequence of the values of its members.
RECURSIVE ParseMembers(_, _, _)
ParseMembers(ts, k, acc) ==
    IF k > Len(ts) THEN ParseFails
    ELSE IF ts[k] = "}" THEN [ok |-> TRUE, value |-> acc, next |-> k + 1]
    ELSE IF ts[k] = "{"
         THEN LET member == ParseMembers(ts, k + 1, <<>>)
              IN  IF member.ok THEN ParseMembers(ts, member.next, Append(acc, member.value))
                  ELSE ParseFails
         ELSE ParseFails

\* JSON.parse(jsonString): <<value>>, or <<>> when it throws.  The whole string
\* has to be one object.
JSONParse(ts) ==
    IF ts # <<>> /\ ts[1] = "{"
    THEN LET object == ParseMembers(ts, 2, <<>>)
         IN  IF object.ok /\ object.next = Len(ts) + 1 THEN <<object.value>> ELSE <<>>
    ELSE <<>>

\* content.match(/```(?:json)?([\s\S]*?)```/): <<group 1>>, or <<>> for null.
\* The match starts at the first fence marker and, being lazy, ends at the
\* next one.
FenceMatch(content) ==
    LET fences == {n \in 1..Len(content) : content[n] = "f"}
    IN  IF Cardinality(fences) >= 2
        THEN LET first  == CHOOSE n \in fences : \A m \in fences : n <= m
                 second == CHOOSE n \in fences \ {first} :
                              \A m \in fences \ {first} : n <= m
             IN  <<SubSeq(content, first + 1, second - 1)>>
        ELSE <<>>

\* content.match(/({[\s\S]*})/): <<group 1>>, or <<>> for null.  The match
\* starts at the first opening brace and, being greedy, ends at the last
\* closing brace.
BraceMatch(content) ==
    LET opens  == {n \in 1..Len(content) : content[n] = "{"}
        closes == {n \in 1..Len(content) : content[n] = "}"}
    IN  IF opens # {} /\ closes # {}
        THEN LET first == CHOOSE n \in opens : \A m \in opens : n <= m
                 last  == CHOOSE n \in closes : \A m \in closes : m <= n
             IN  IF first < last THEN <<SubSeq(content, first, last)>> ELSE <<>>
        ELSE <<>>

\* const jsonMatch = content.match(fence) || content.match(braces);
\* const jsonString = jsonMatch ? jsonMatch[1].trim() : content.trim()
JsonString(content) ==
    IF FenceMatch(content) # <<>> THEN FenceMatch(content)[1]
    ELSE IF BraceMatch(content) # <<>> THEN BraceMatch(content)[1]
    ELSE content

\* try { return JSON.parse(jsonString) } catch { throw new Error('Failed to
\* parse Claude response as JSON') }
ParseResponse(content) ==
    LET parsed == JSONParse(JsonString(content))
    IN  IF parsed # <<>> THEN [returns |-> parsed]
        ELSE [throws |-> "Failed to parse Claude response as JSON"]

ParseInit ==
    /\ cIn \in SeqsUpTo(Tokens, MaxContent)
    /\ cOut = <<>>

\* the parsing step of callClaudeAPI on the response text
ParseCall ==
    /\ cOut = <<>>
    /\ cOut' = <<ParseResponse(cIn)>>
    /\ UNCHANGED cIn

----------------------------------------------------------------------------
(* processReportWithAI and its callers *)

ReportId == "report-1"

\* reports/<id> as the upload page created it, and libraries/<libraryId>
ReportDoc == [pdfPath |-> "reports/report-1.pdf", libraryId |-> "lib-1", year |-> 2023]
LibraryDoc == [name |-> "Morristown"]

\* libraryData.name || 'Unknown Library'
LibraryName(libraryData) ==
    IF Has(libraryData, "name") /\ libraryData.name # ""
    THEN libraryData.name ELSE "Unknown Library"

\* what callClaudeAPI returns for chunk n of the document when it does not throw
ChunkRecords ==
    << [libraryOverview |-> OverviewX, collectionData |-> <<A1>>],
       [libraryOverview |-> OverviewY, collectionData |-> <<A2, B1>>],
       [usageStatistics |-> UsageU, collectionData |-> <<B0>>],
       [summerReadingData |-> <<SummerPart>>] >>

\* the ways callClaudeAPI throws
OracleErrors ==
    { "Claude API key not found", "Claude fetch failed", "Claude API error",
      "Empty response from Claude API", "Failed to parse Claude response as JSON" }

\* the outcomes of one callClaudeAPI call: without an API key it throws before
\* any request is made; with one, the request, the response or its parsing may
\* fail, or the parsed reply is returned
callClaudeAPI ==
    IF apiKey
    THEN {"parsed"} \cup (OracleErrors \ {"Claude API key not found"})
    ELSE {"Claude API key not found"}

sectionKeys ==
    { "libraryOverview", "collectionOverview", "usageStatistics", "collectionData",
      "circulationData", "revenueData", "expenseData", "programData", "venueData",
      "summerReadingData", "keyFindings" }

\* const finalReportData = { reportId, libraryName, year, libraryOverview:
\* processedData.libraryOverview!, ... }: every section key is an own property
\* of the object, holding <<>> (undefined) when processedData lacks it.
\* createdAt and updatedAt (the clock) are left out.
FinalReportData(reportId, libraryName, year, processedData) ==
    [k \in {"reportId", "libraryName", "year"} \cup sectionKeys |->
        CASE k = "reportId"    -> reportId
          [] k = "libraryName" -> libraryName
          [] k = "year"        -> year
          [] OTHER -> IF Has(processedData, k) THEN <<processedData[k]>> ELSE <<>>]

\* the local state of a run that is not executing: set when a call starts and
\* dropped when its caller is done with it
Fresh(r) ==
    /\ chunkIdx' = [chunkIdx EXCEPT ![r] = 0]
    /\ results'  = [results EXCEPT ![r] = <<>>]
    /\ error'    = [error EXCEPT ![r] = <<>>]
    /\ returned' = [returned EXCEPT ![r] = <<>>]
    /\ attempts' = [attempts EXCEPT ![r] = <<>>]
    /\ handed'   = [handed EXCEPT ![r] = <<>>]
    /\ writes'   = [writes EXCEPT ![r] = <<>>]

\* throw inside the outer try: control passes to the catch block
Throw(r, message) ==
    /\ error' = [error EXCEPT ![r] = <<message>>]
    /\ pc' = [pc EXCEPT ![r] = "catch"]

Goto(r, label) ==
    /\ pc' = [pc EXCEPT ![r] = label]
    /\ UNCHANGED error

\* an update that resolves but leaves a terminal status of another run in place
UpdateStatus_FirstWins(r, value) ==
    /\ status' = IF status \in {"Completed", "Failed"} /\ statusBy # <<r>> THEN status ELSE value
    /\ statusBy' = IF status \in {"Completed", "Failed"} /\ statusBy # <<r>> THEN statusBy ELSE <<r>>
    /\ writes' = [writes EXCEPT ![r] = Append(@, [status |-> value, ok |-> TRUE])]

\* updateDoc(reports/<id>, { status, updatedAt }) resolved
UpdateStatus(r, value) ==
    /\ status' = value
    /\ statusBy' = <<r>>
    /\ writes' = [writes EXCEPT ![r] = Append(@, [status |-> value, ok |-> TRUE])]

\* updateDoc(reports/<id>, { status, updatedAt }) rejected
UpdateFails(r, value) ==
    /\ writes' = [writes EXCEPT ![r] = Append(@, [status |-> value, ok |-> FALSE])]
    /\ UNCHANGED <<status, statusBy>>

\* a run that starts with the read of reports/<id>, without the Processing update
Invoke_ReadsFirst(r) ==
    /\ pc[r] = "idle"
    /\ pc' = [pc EXCEPT ![r] = "getReport"]
    /\ Fresh(r)
    /\ UNCHANGED <<status, errorMessage, reportData, statusBy, pdfChunks, apiKey,
                   mIn, mOut, tIn, tMax, tOut, cIn, cOut>>

\* a caller (an API handler or handleGenerateDashboard) calls processReportWithAI
Invoke(r) ==
    /\ pc[r] = "idle"
    /\ pc' = [pc EXCEPT ![r] = "setProcessing"]
    /\ Fresh(r)
    /\ UNCHANGED <<status, errorMessage, reportData, statusBy, pdfChunks, apiKey,
                   mIn, mOut, tIn, tMax, tOut, cIn, cOut>>

\* 1. await updateDoc(reports/<id>, { status: 'Processing' })
SetProcessing(r) ==
    /\ pc[r] = "setProcessing"
    /\ \E ok \in BOOLEAN :
         IF ok
         THEN /\ UpdateStatus(r, "Processing")
              /\ Goto(r, "getReport")
         ELSE /\ UpdateFails(r, "Processing")
              /\ Throw(r, "updateDoc failed")
    /\ UNCHANGED <<errorMessage, reportData, chunkIdx, results, returned, attempts,
                   handed, pdfChunks, apiKey,
                   mIn, mOut, tIn, tMax, tOut, cIn, cOut>>

\* 2. getDoc(reports/<id>); throw 'Report not found' unless it exists
GetReport(r) ==
    /\ pc[r] = "getReport"
    /\ \E outcome \in {"exists", "missing", "rejected"} :
         CASE outcome = "exists"   -> Goto(r, "getLibrary")
           [] outcome = "missing"  -> Throw(r, "Report not found")
           [] outcome = "rejected" -> Throw(r, "getDoc failed")
    /\ UNCHANGED <<status, statusBy, errorMessage, reportData, chunkIdx, results, returned,
                   attempts, handed, writes, pdfChunks, apiKey,
                   mIn, mOut, tIn, tMax, tOut, cIn, cOut>>

\* 3. getDoc(libraries/<libraryId>); throw 'Library not found' unless it exists
GetLibrary(r) ==
    /\ pc[r] = "getLibrary"
    /\ \E outcome \in {"exists", "missing", "rejected"} :
         CASE outcome = "exists"   -> Goto(r, "download")
           [] outcome = "missing"  -> Throw(r, "Library not found")
           [] outcome = "rejected" -> Throw(r, "getDoc failed")
    /\ UNCHANGED <<status, statusBy, errorMessage, reportData, chunkIdx, results, returned,
                   attempts, handed, writes, pdfChunks, apiKey,
                   mIn, mOut, tIn, tMax, tOut, cIn, cOut>>

\* 4. downloadAndExtractPdfText: fetch, response.ok, pdfParse; every error is
\* logged and re-thrown.  On success processLargePdfWithClaudeAI splits the
\* text and enters its loop with i = 0.
downloadAndExtractPdfText(r) ==
    /\ pc[r] = "download"
    /\ \E outcome \in {"text", "fetch failed", "Failed to download PDF", "pdfParse failed"} :
         IF outcome = "text"
         THEN /\ Goto(r, "chunks")
              /\ chunkIdx' = [chunkIdx EXCEPT ![r] = 0]
         ELSE /\ Throw(r, outcome)
              /\ UNCHANGED chunkIdx
    /\ UNCHANGED <<status, statusBy, errorMessage, reportData, results, returned, attempts,
                   handed, writes, pdfChunks, apiKey,
                   mIn, mOut, tIn, tMax, tOut, cIn, cOut>>

\* the loop body without its try/catch: an oracle error leaves the loop and
\* reaches the outer catch
ProcessChunk_NoCatch(r) ==
    /\ pc[r] = "chunks"
    /\ chunkIdx[r] < pdfChunks
    /\ \E outcome \in callClaudeAPI :
         /\ attempts' = [attempts EXCEPT ![r] = Append(@, outcome = "parsed")]
         /\ IF outcome = "parsed"
            THEN /\ results' = [results EXCEPT ![r] = Append(@, ChunkRecords[chunkIdx[r] + 1])]
                 /\ UNCHANGED <<pc, error>>
            ELSE /\ Throw(r, outcome)
                 /\ UNCHANGED results
    /\ chunkIdx' = [chunkIdx EXCEPT ![r] = @ + 1]
    /\ UNCHANGED <<status, statusBy, errorMessage, reportData, returned, handed,
                   writes, pdfChunks, apiKey,
                   mIn, mOut, tIn, tMax, tOut, cIn, cOut>>

\* a loop body whose catch tries the same chunk once more before going on
ProcessChunk_Retry(r) ==
    /\ pc[r] = "chunks"
    /\ chunkIdx[r] < pdfChunks
    /\ \E outcome \in callClaudeAPI :
         /\ results' = [results EXCEPT ![r] =
                          IF outcome = "parsed"
                          THEN Append(@, ChunkRecords[chunkIdx[r] + 1]) ELSE @]
         /\ attempts' = [attempts EXCEPT ![r] = Append(@, outcome = "parsed")]
         /\ chunkIdx' = [chunkIdx EXCEPT ![r] =
                           IF outcome # "parsed" /\ Len(attempts[r]) = @
                           THEN @ ELSE @ + 1]
    /\ UNCHANGED <<status, statusBy, errorMessage, reportData, pc, error, returned, handed,
                   writes, pdfChunks, apiKey,
                   mIn, mOut, tIn, tMax, tOut, cIn, cOut>>

\* one iteration of the loop of processLargePdfWithClaudeAI:
\* try { results.push(await callClaudeAPI(...)) } catch { log and continue }
ProcessChunk(r) ==
    /\ pc[r] = "chunks"
    /\ chunkIdx[r] < pdfChunks
    /\ \E outcome \in callClaudeAPI :
         /\ results' = [results EXCEPT ![r] =
                          IF outcome = "parsed"
                          THEN Append(@, ChunkRecords[chunkIdx[r] + 1]) ELSE @]
         /\ attempts' = [attempts EXCEPT ![r] = Append(@, outcome = "parsed")]
    /\ chunkIdx' = [chunkIdx EXCEPT ![r] = @ + 1]
    /\ UNCHANGED <<status, statusBy, errorMessage, reportData, pc, error, returned, handed,
                   writes, pdfChunks, apiKey,
                   mIn, mOut, tIn, tMax, tOut, cIn, cOut>>

\* setDoc not awaited: its rejection is lost and the run goes on to Completed
StoreReportData_NotAwaited(r) ==
    /\ pc[r] = "chunks"
    /\ chunkIdx[r] >= pdfChunks
    /\ LET processedData == mergeResults(results[r])
           finalReportData == FinalReportData(ReportId, LibraryName(LibraryDoc),
                                              ReportDoc.year, processedData)
       IN  \E ok \in BOOLEAN :
             /\ handed' = [handed EXCEPT ![r] = <<[doc |-> finalReportData, stored |-> ok]>>]
             /\ reportData' = IF ok THEN <<finalReportData>> ELSE reportData
             /\ Goto(r, "setCompleted")
    /\ UNCHANGED <<status, statusBy, errorMessage, chunkIdx, results, returned, attempts,
                   writes, pdfChunks, apiKey,
                   mIn, mOut, tIn, tMax, tOut, cIn, cOut>>

\* setDoc(ref, finalReportData, { merge: true }): a section the new record
\* lacks keeps the value stored before
StoreReportData_Merge(r) ==
    /\ pc[r] = "chunks"
    /\ chunkIdx[r] >= pdfChunks
    /\ LET processedData == mergeResults(results[r])
           finalReportData == FinalReportData(ReportId, LibraryName(LibraryDoc),
                                              ReportDoc.year, processedData)
           mergedDoc == IF reportData = <<>> THEN finalReportData
                        ELSE [k \in DOMAIN finalReportData |->
                                IF k \in sectionKeys /\ finalReportData[k] = <<>>
                                THEN reportData[1][k] ELSE finalReportData[k]]
       IN  \E ok \in BOOLEAN :
             /\ handed' = [handed EXCEPT ![r] = <<[doc |-> finalReportData, stored |-> ok]>>]
             /\ IF ok
                THEN /\ reportData' = <<mergedDoc>>
                     /\ Goto(r, "setCompleted")
                ELSE /\ Throw(r, "setDoc failed")
                     /\ UNCHANGED reportData
    /\ UNCHANGED <<status, statusBy, errorMessage, chunkIdx, results, returned, attempts,
                   writes, pdfChunks, apiKey,
                   mIn, mOut, tIn, tMax, tOut, cIn, cOut>>

\* a run that stores nothing when no chunk gave a reply, and goes on to Completed
StoreReportData_SkipsEmpty(r) ==
    /\ pc[r] = "chunks"
    /\ chunkIdx[r] >= pdfChunks
    /\ LET processedData == mergeResults(results[r])
           finalReportData == FinalReportData(ReportId, LibraryName(LibraryDoc),
                                              ReportDoc.year, processedData)
       IN  \E ok \in BOOLEAN :
             /\ handed' = [handed EXCEPT ![r] = <<[doc |-> finalReportData, stored |-> ok]>>]
             /\ IF results[r] = <<>>
                THEN /\ Goto(r, "setCompleted")
                     /\ UNCHANGED reportData
                ELSE IF ok
                THEN /\ reportData' = <<finalReportData>>
                     /\ Goto(r, "setCompleted")
                ELSE /\ Throw(r, "setDoc failed")
                     /\ UNCHANGED reportData
    /\ UNCHANGED <<status, statusBy, errorMessage, chunkIdx, results, returned, attempts,
                   writes, pdfChunks, apiKey,
                   mIn, mOut, tIn, tMax, tOut, cIn, cOut>>

\* after the loop: return mergeResults(results); 6. build finalReportData;
\* 7. await setDoc(reportData/<id>, finalReportData)
StoreReportData(r) ==
    /\ pc[r] = "chunks"
    /\ chunkIdx[r] >= pdfChunks
    /\ LET processedData == mergeResults(results[r])
           finalReportData == FinalReportData(ReportId, LibraryName(LibraryDoc),
                                              ReportDoc.year, processedData)
       IN  \E ok \in BOOLEAN :
             /\ handed' = [handed EXCEPT ![r] = <<[doc |-> finalReportData, stored |-> ok]>>]
             /\ IF ok
                THEN /\ reportData' = <<finalReportData>>
                     /\ Goto(r, "setCompleted")
                ELSE /\ Throw(r, "setDoc failed")
                     /\ UNCHANGED reportData
    /\ UNCHANGED <<status, statusBy, errorMessage, chunkIdx, results, returned, attempts,
                   writes, pdfChunks, apiKey,
                   mIn, mOut, tIn, tMax, tOut, cIn, cOut>>

\* the Completed update not awaited: return true whether or not it is applied
SetCompleted_NotAwaited(r) ==
    /\ pc[r] = "setCompleted"
    /\ \E ok \in BOOLEAN :
         IF ok THEN UpdateStatus(r, "Completed") ELSE UpdateFails(r, "Completed")
    /\ returned' = [returned EXCEPT ![r] = <<"true">>]
    /\ Goto(r, "settled")
    /\ UNCHANGED <<errorMessage, reportData, chunkIdx, results, attempts, handed,
                   pdfChunks, apiKey,
                   mIn, mOut, tIn, tMax, tOut, cIn, cOut>>

\* a statement after the Completed update, still inside the try, throws
SetCompleted_ThenThrows(r) ==
    /\ pc[r] = "setCompleted"
    /\ \E ok \in BOOLEAN :
         IF ok THEN UpdateStatus(r, "Completed") ELSE UpdateFails(r, "Completed")
    /\ Throw(r, "updateDoc failed")
    /\ UNCHANGED <<errorMessage, reportData, chunkIdx, results, returned, attempts,
                   handed, pdfChunks, apiKey,
                   mIn, mOut, tIn, tMax, tOut, cIn, cOut>>

\* 8. await updateDoc(reports/<id>, { status: 'Completed' }); return true
SetCompleted(r) ==
    /\ pc[r] = "setCompleted"
    /\ \E ok \in BOOLEAN :
         IF ok
         THEN /\ UpdateStatus(r, "Completed")
              /\ returned' = [returned EXCEPT ![r] = <<"true">>]
              /\ Goto(r, "settled")
         ELSE /\ UpdateFails(r, "Completed")
              /\ Throw(r, "updateDoc failed")
              /\ UNCHANGED returned
    /\ UNCHANGED <<errorMessage, reportData, chunkIdx, results, attempts, handed,
                   pdfChunks, apiKey,
                   mIn, mOut, tIn, tMax, tOut, cIn, cOut>>

\* a catch block that logs and returns false without updating the status
SetFailed_NoStatusWrite(r) ==
    /\ pc[r] = "catch"
    /\ returned' = [returned EXCEPT ![r] = <<"false">>]
    /\ pc' = [pc EXCEPT ![r] = "settled"]
    /\ UNCHANGED <<status, statusBy, writes, errorMessage, reportData, chunkIdx, results,
                   error, attempts, handed, pdfChunks, apiKey,
                   mIn, mOut, tIn, tMax, tOut, cIn, cOut>>

\* a catch block whose updateDoc has no try/catch of its own: its rejection
\* rejects processReportWithAI
SetFailed_Unguarded(r) ==
    /\ pc[r] = "catch"
    /\ \E ok \in BOOLEAN :
         IF ok
         THEN /\ UpdateStatus(r, "Failed")
              /\ returned' = [returned EXCEPT ![r] = <<"false">>]
         ELSE /\ UpdateFails(r, "Failed")
              /\ returned' = [returned EXCEPT ![r] = <<"rejected">>]
    /\ pc' = [pc EXCEPT ![r] = "settled"]
    /\ UNCHANGED <<errorMessage, reportData, chunkIdx, results, error, attempts,
                   handed, pdfChunks, apiKey,
                   mIn, mOut, tIn, tMax, tOut, cIn, cOut>>

\* a catch block that also removes reportData/<id>
SetFailed_DeletesRecord(r) ==
    /\ pc[r] = "catch"
    /\ \E ok \in BOOLEAN :
         IF ok THEN UpdateStatus(r, "Failed") ELSE UpdateFails(r, "Failed")
    /\ reportData' = <<>>
    /\ returned' = [returned EXCEPT ![r] = <<"false">>]
    /\ pc' = [pc EXCEPT ![r] = "settled"]
    /\ UNCHANGED <<errorMessage, chunkIdx, results, error, attempts,
                   handed, pdfChunks, apiKey,
                   mIn, mOut, tIn, tMax, tOut, cIn, cOut>>

\* a catch block that returns whether its update of the status was applied
SetFailed_ReturnsWriteOutcome(r) ==
    /\ pc[r] = "catch"
    /\ \E ok \in BOOLEAN :
         IF ok
         THEN /\ UpdateStatus(r, "Failed")
              /\ returned' = [returned EXCEPT ![r] = <<"true">>]
         ELSE /\ UpdateFails(r, "Failed")
              /\ returned' = [returned EXCEPT ![r] = <<"false">>]
    /\ pc' = [pc EXCEPT ![r] = "settled"]
    /\ UNCHANGED <<errorMessage, reportData, chunkIdx, results, error, attempts,
                   handed, pdfChunks, apiKey,
                   mIn, mOut, tIn, tMax, tOut, cIn, cOut>>

\* the catch block: try { await updateDoc({ status: 'Failed' }) } catch { log };
\* return false.  The update sets status and updatedAt only.
SetFailed(r) ==
    /\ pc[r] = "catch"
    /\ \E ok \in BOOLEAN :
         IF ok THEN UpdateStatus(r, "Failed") ELSE UpdateFails(r, "Failed")
    /\ returned' = [returned EXCEPT ![r] = <<"false">>]
    /\ pc' = [pc EXCEPT ![r] = "settled"]
    /\ UNCHANGED <<errorMessage, reportData, chunkIdx, results, error, attempts,
                   handed, pdfChunks, apiKey,
                   mIn, mOut, tIn, tMax, tOut, cIn, cOut>>

\* the caller's continuation once the promise has settled; the run's local
\* state is gone afterwards.  The handler's
\* .catch(error => updateDoc({ status: 'Failed', errorMessage: error.message }))
\* runs only for a rejected promise; a fulfilled one writes nothing.
HandlerSettle(r) ==
    /\ pc[r] = "settled"
    /\ pc' = [pc EXCEPT ![r] = "idle"]
    /\ IF returned[r] = <<"rejected">>
       THEN \E ok \in BOOLEAN :
              IF ok
              THEN /\ status' = "Failed"
                   /\ errorMessage' = error[r]
                   /\ statusBy' = <<r>>
              ELSE UNCHANGED <<status, errorMessage, statusBy>>
       ELSE UNCHANGED <<status, errorMessage, statusBy>>
    /\ Fresh(r)
    /\ UNCHANGED <<reportData, pdfChunks, apiKey,
                   mIn, mOut, tIn, tMax, tOut, cIn, cOut>>

\* the upload page created reports/<id> with status 'Processing'; nothing is
\* stored under reportData/<id> yet
PipeInit ==
    /\ status = "Processing"
    /\ errorMessage = <<>>
    /\ reportData = <<>>
    /\ pc = [r \in Runs |-> "idle"]
    /\ chunkIdx = [r \in Runs |-> 0]
    /\ results = [r \in Runs |-> <<>>]
    /\ error = [r \in Runs |-> <<>>]
    /\ returned = [r \in Runs |-> <<>>]
    /\ attempts = [r \in Runs |-> <<>>]
    /\ handed = [r \in Runs |-> <<>>]
    /\ writes = [r \in Runs |-> <<>>]
    /\ statusBy = <<>>

\* no stand-alone call is under way
NoMerge == mIn = <<>> /\ mOut = <<>>
NoSplit == tIn = <<>> /\ tMax = 1 /\ tOut = <<>>
NoParse == cIn = <<>> /\ cOut = <<>>

Init ==
    /\ PipeInit
    /\ pdfChunks \in 0..MaxChunks
    /\ apiKey \in BOOLEAN
    /\ NoMerge /\ NoSplit /\ NoParse

Next ==
    \/ \E r \in Runs : Invoke(r)
    \/ \E r \in Runs : SetProcessing(r)
    \/ \E r \in Runs : GetReport(r)
    \/ \E r \in Runs : GetLibrary(r)
    \/ \E r \in Runs : downloadAndExtractPdfText(r)
    \/ \E r \in Runs : ProcessChunk(r)
    \/ \E r \in Runs : StoreReportData(r)
    \/ \E r \in Runs : SetCompleted(r)
    \/ \E r \in Runs : SetFailed(r)
    \/ \E r \in Runs : HandlerSettle(r)

Spec == Init /\ [][Next]_vars

\* a stand-alone call of mergeResults on every bounded input
InitMerge ==
    /\ PipeInit
    /\ pdfChunks = 0
    /\ apiKey = TRUE
    /\ MergeInit
    /\ NoSplit /\ NoParse

NextMerge == MergeCall /\ UNCHANGED <<pipeVars, splitVars, parseVars>>

SpecMerge == InitMerge /\ [][NextMerge]_vars

\* the partial records that carry a category breakdown
BreakdownInputs == {rec \in MergeInputs : DOMAIN rec \cap Range(arrayProps) # {}}

\* a stand-alone call of mergeResults on every bounded sequence of them
InitBreakdown ==
    /\ PipeInit
    /\ pdfChunks = 0
    /\ apiKey = TRUE
    /\ mIn \in SeqsUpTo(BreakdownInputs, MaxParts)
    /\ mOut = <<>>
    /\ NoSplit /\ NoParse

SpecBreakdown == InitBreakdown /\ [][NextMerge]_vars

\* a stand-alone call of splitTextIntoChunks on every bounded text and budget
InitSplit ==
    /\ PipeInit
    /\ pdfChunks = 0
    /\ apiKey = TRUE
    /\ SplitInit
    /\ NoMerge /\ NoParse

NextSplit == SplitCall /\ UNCHANGED <<pipeVars, mergeVars, parseVars>>

SpecSplit == InitSplit /\ [][NextSplit]_vars

\* the parsing step of callClaudeAPI on every bounded response text
InitParse ==
    /\ PipeInit
    /\ pdfChunks = 0
    /\ apiKey = TRUE
    /\ ParseInit
    /\ NoMerge /\ NoSplit

NextParse == ParseCall /\ UNCHANGED <<pipeVars, mergeVars, splitVars>>

SpecParse == InitParse /\ [][NextParse]_vars

----------------------------------------------------------------------------
(* Vocabulary of the properties *)

Terminal == {"Completed", "Failed"}

Last(seq) == seq[Len(seq)]

\* the replies of the chunks whose oracle call succeeded, in chunk order
RECURSIVE SuccessfulRecords(_, _)
SuccessfulRecords(outcomes, n) ==
    IF n = 0 THEN <<>>
    ELSE IF outcomes[n]
         THEN Append(SuccessfulRecords(outcomes, n - 1), ChunkRecords[n])
         ELSE SuccessfulRecords(outcomes, n - 1)

\* the status values run r wrote successfully, in order
RECURSIVE Written(_, _)
Written(log, n) ==
    IF n = 0 THEN <<>>
    ELSE IF log[n].ok THEN Append(Written(log, n - 1), log[n].status)
         ELSE Written(log, n - 1)

WrittenBy(r) == Written(writes[r], Len(writes[r]))

Settled(r) == pc[r] = "settled"

\* the errors that are thrown inside the outer try of processReportWithAI
FatalErrors ==
    { "updateDoc failed", "getDoc failed", "Report not found", "Library not found",
      "fetch failed", "Failed to download PDF", "pdfParse failed", "setDoc failed" }

----------------------------------------------------------------------------
C2_CompletedAfterStore ==
    \A r \in Runs :
        (\E n \in 1..Len(writes[r]) : writes[r][n].status = "Completed") =>
            /\ Len(attempts[r]) = pdfChunks
            /\ chunkIdx[r] = pdfChunks
            /\ handed[r] # <<>>
            /\ handed[r][1].stored
            /\ reportData # <<>>

C2_Witness ==
    \E r \in Runs :
        /\ "Completed" \in Range(WrittenBy(r))
        /\ pdfChunks = MaxChunks
        /\ \E n \in 1..pdfChunks : ~attempts[r][n]
        /\ reportData = <<handed[r][1].doc>>

\* document record or library metadata not found, blob fetch with non-success
\* status, text extraction failure, failure of the result-store write
ClaimedFatalErrors ==
    { "Report not found", "Library not found", "Failed to download PDF",
      "pdfParse failed", "setDoc failed" }

(* C3 as stated: a run that hit a fatal error has, when it returns, written  *)
(* Failed to the document record and returns false.                          *)
C3_FailedIsWritten ==
    \A r \in Runs :
        (Settled(r) /\ error[r] # <<>> /\ error[r][1] \in ClaimedFatalErrors) =>
            /\ returned[r] = <<"false">>
            /\ Last(writes[r]) = [status |-> "Failed", ok |-> TRUE]

(* C3 amended: a fatal error stops the run: it is one of the errors of the   *)
(* outer try, control is in the catch block or beyond, nothing was stored    *)
(* or marked Completed after it, the last updateDoc call of the run is the   *)
(* one for Failed (which may itself fail), and the run returns false.        *)
C3_FatalErrorStopsRun ==
    \A r \in Runs :
        error[r] # <<>> =>
            /\ error[r][1] \in FatalErrors
            /\ pc[r] \in {"catch", "settled"}
            /\ "Completed" \notin Range(WrittenBy(r))
            /\ error[r][1] \in {"getDoc failed", "Report not found", "Library not found",
                                "fetch failed", "Failed to download PDF", "pdfParse failed"}
                  => (attempts[r] = <<>> /\ handed[r] = <<>>)
            /\ error[r][1] = "setDoc failed" => (handed[r] # <<>> /\ ~handed[r][1].stored)
            /\ Settled(r) =>
                  /\ returned[r] = <<"false">>
                  /\ Last(writes[r]).status = "Failed"
                  /\ \A n \in 1..(Len(writes[r]) - 1) : writes[r][n].status # "Failed"
                  /\ (Last(writes[r]).ok /\ statusBy = <<r>>) => status = "Failed"

\* a run whose library read found nothing has written Failed and returned false
C3_Witness ==
    \E r \in Runs :
        /\ Settled(r)
        /\ error[r] = <<"Library not found">>
        /\ returned[r] = <<"false">>
        /\ writes[r] = << [status |-> "Processing", ok |-> TRUE],
                          [status |-> "Failed", ok |-> TRUE] >>
        /\ status = "Failed"

(* C4: whenever a run has set the record to Failed, the record's             *)
(* errorMessage holds the message of the error that made the run fail.       *)
C4_ErrorMessageWritten ==
    \A r \in Runs :
        (Settled(r) /\ status = "Failed" /\ statusBy = <<r>>) => errorMessage = error[r]

(* C5: processReportWithAI never rejects: whatever fails, the promise is     *)
(* fulfilled with true or false; until then the call is at one of its        *)
(* awaits, each of which it leaves whether the collaborator resolves or      *)
(* rejects.                                                                  *)
C5_NeverRejects ==
    \A r \in Runs :
        /\ returned[r] \in {<<>>, <<"true">>, <<"false">>}
        /\ Settled(r) <=> returned[r] # <<>>
        /\ pc[r] \in {"idle", "setProcessing", "getReport", "getLibrary", "download",
                      "chunks", "setCompleted", "catch", "settled"}
        /\ pc[r] = "chunks" => chunkIdx[r] <= pdfChunks
        /\ pc[r] = "catch" => error[r] # <<>>

\* the Completed write failed, then the Failed write failed too, and the call
\* still returned false
C5_Witness ==
    \E r \in Runs :
        /\ Settled(r) /\ returned[r] = <<"false">>
        /\ Len(writes[r]) = 3
        /\ writes[r][2] = [status |-> "Completed", ok |-> FALSE]
        /\ writes[r][3] = [status |-> "Failed", ok |-> FALSE]

(* C6 as stated: when a run returns, the record's status is Completed or     *)
(* Failed.                                                                   *)
C6_TerminalOnReturn ==
    \A r \in Runs : Settled(r) => status \in Terminal

(* C6 amended: when a run returns, its last updateDoc call was the one for   *)
(* a terminal status: Completed, successfully, if it returns true; Failed,   *)
(* successfully or not, if it returns false.  If that call succeeded and no  *)
(* other run has written the status since, the record is in that terminal    *)
(* status.                                                                   *)
C6_TerminalWriteAttempted ==
    \A r \in Runs :
        Settled(r) =>
            /\ writes[r] # <<>>
            /\ returned[r] = <<"true">> =>
                  Last(writes[r]) = [status |-> "Completed", ok |-> TRUE]
            /\ returned[r] = <<"false">> => Last(writes[r]).status = "Failed"
            /\ (Last(writes[r]).ok /\ statusBy = <<r>>) =>
                  (status = Last(writes[r]).status /\ status \in Terminal)
            /\ (statusBy = <<r>> /\ WrittenBy(r) # <<>>) => status = Last(WrittenBy(r))

\* a run returned false although the record still says Processing, because its
\* write of Failed was rejected
C6_Witness ==
    \E r \in Runs :
        /\ Settled(r) /\ returned[r] = <<"false">>
        /\ error[r] = <<"pdfParse failed">>
        /\ Last(writes[r]) = [status |-> "Failed", ok |-> FALSE]
        /\ WrittenBy(r) = <<"Processing">>
        /\ statusBy = <<r>>
        /\ status = "Processing"

\* run r makes a successful status write in this step
WritesStatus(r) ==
    /\ Len(writes'[r]) = Len(writes[r]) + 1
    /\ Last(writes'[r]).ok
    /\ status' = Last(writes'[r]).status

\* no updateDoc call of any run has been rejected so far
NoStatusWriteFailed ==
    \A r \in Runs : \A n \in 1..Len(writes[r]) : writes[r][n].ok

(* C7 as stated: a record whose status is Completed or Failed changes        *)
(* status only by the first write of a newly started run, which sets it to   *)
(* Processing (looked at in behaviours where every status write succeeds).   *)
C7_TerminalUntilNewRun ==
    [][ (status \in Terminal /\ status' # status /\ NoStatusWriteFailed) =>
            /\ status' = "Processing"
            /\ \E r \in Runs : pc[r] = "setProcessing" /\ WritesStatus(r) ]_vars

(* C7 amended: within a run no updateDoc call follows the run's successful   *)
(* write of Completed or of Failed.  A terminal status changes only by a     *)
(* successful status write of a run that has not written a terminal status   *)
(* itself: its first write, of Processing, which overwrites whatever was     *)
(* there, or else its own terminal write (its Processing write failed, or    *)
(* the run was already in flight when another run finished).                 *)
C7_TerminalWriteIsLast ==
    /\ [](\A r \in Runs : \A n \in 1..(Len(writes[r]) - 1) :
             ~(writes[r][n].ok /\ writes[r][n].status \in Terminal))
    /\ [][ (status \in Terminal /\ status' # status) =>
             \E r \in Runs :
                /\ WritesStatus(r)
                /\ Range(WrittenBy(r)) \cap Terminal = {}
                /\ \/ pc[r] = "setProcessing" /\ status' = "Processing"
                   \/ pc[r] \in {"setCompleted", "catch"} /\ status' \in Terminal ]_vars
    /\ [][ \A r \in Runs :
             (pc[r] = "setProcessing" /\ pc'[r] = "getReport") =>
                (status' = "Processing" /\ writes'[r] = <<[status |-> "Processing", ok |-> TRUE]>>)
         ]_vars

\* run q has completed, and run r, in flight all the while, has then failed
\* and turned the Completed of q into Failed
C7_Witness ==
    \E q, r \in Runs :
        /\ q # r /\ Settled(q) /\ Settled(r)
        /\ WrittenBy(q) = <<"Processing", "Completed">>
        /\ WrittenBy(r) = <<"Processing", "Failed">>
        /\ statusBy = <<r>> /\ status = "Failed"

\* splitTextIntoChunks(pdfText, 50000)
ChunkTokens == 50000

\* the document's text is empty: pdfParse resolved with text ''
ZeroText == pdfChunks = Len(splitTextIntoChunks(<<>>, ChunkTokens))

\* run r stored a document under reportData/<id>
Stored(r) == handed[r] # <<>> /\ handed[r][1].stored

(* C17: when the PDF parses to zero text, the run makes no oracle call,      *)
(* stores no document under reportData/<id>, attempts Failed as its last     *)
(* status write and returns false.                                           *)
C17_ZeroTextFails ==
    \A r \in Runs :
        (ZeroText /\ Settled(r)) =>
            /\ attempts[r] = <<>>
            /\ ~Stored(r)
            /\ returned[r] = <<"false">>
            /\ Last(writes[r]).status = "Failed"

(* C18: when no API key is configured and the text has at least one chunk,   *)
(* the run stores no document under reportData/<id>, attempts Failed as its  *)
(* last status write and returns false.                                      *)
C18_MissingKeyFailsRun ==
    \A r \in Runs :
        (~apiKey /\ pdfChunks > 0 /\ Settled(r)) =>
            /\ ~Stored(r)
            /\ returned[r] = <<"false">>
            /\ Last(writes[r]).status = "Failed"

(* C19: a successful setDoc of a run replaces the whole entry                 *)
(* reportData/<id>: afterwards the entry is exactly the record the run       *)
(* built from its own chunks, whatever was stored before; and the entry      *)
(* changes in no other step.                                                 *)
C19_FullOverwrite ==
    [][ /\ \A r \in Runs :
             (pc[r] = "chunks" /\ pc'[r] = "setCompleted") =>
                /\ reportData' = <<FinalReportData(ReportId, LibraryName(LibraryDoc),
                                      ReportDoc.year, mergeResults(results[r]))>>
                /\ reportData' = <<handed'[r][1].doc>>
        /\ reportData' # reportData =>
             \E r \in Runs : pc[r] = "chunks" /\ pc'[r] = "setCompleted" ]_vars

\* run q stored a record with libraryOverview and collectionData; the re-run r,
\* all of whose chunks failed, then stored its own record and completed: the
\* entry has no section left
C19_Witness ==
    \E q, r \in Runs :
        /\ q # r /\ Stored(q) /\ Stored(r)
        /\ handed[q][1].doc.libraryOverview # <<>>
        /\ handed[q][1].doc.collectionData # <<>>
        /\ Settled(r) /\ returned[r] = <<"true">>
        /\ reportData = <<handed[r][1].doc>>
        /\ \A k \in sectionKeys : reportData[1][k] = <<>>

----------------------------------------------------------------------------
(* Properties of mergeResults, on the stand-alone call *)

\* all entries of one section over the input records, in input order
RECURSIVE AllItems(_, _, _)
AllItems(rs, prop, n) ==
    IF n = 0 THEN <<>>
    ELSE IF Has(rs[n], prop) THEN AllItems(rs, prop, n - 1) \o rs[n][prop]
         ELSE AllItems(rs, prop, n - 1)

\* the sum of one field over the entries of a list that carry a given name
RECURSIVE SumField(_, _, _, _)
SumField(items, name, key, n) ==
    IF n = 0 THEN 0
    ELSE SumField(items, name, key, n - 1)
           + (IF items[n].name = name /\ Has(items[n], key) THEN items[n][key] ELSE 0)

Section(record, prop) == IF Has(record, prop) THEN record[prop] ELSE <<>>

(* C8: in every category-breakdown section, the merged entries carry exactly *)
(* the names of the input entries, and every numeric field of a merged entry *)
(* is the sum of that field over all input entries of that name.             *)
C8_NumericFieldsSummed ==
    mOut # <<>> =>
        \A p \in 1..Len(arrayProps) :
            LET given == AllItems(mIn, arrayProps[p], Len(mIn))
                out   == Section(mOut[1], arrayProps[p])
            IN  /\ {e.name : e \in Range(out)} = {e.name : e \in Range(given)}
                /\ \A e \in Range(out) :
                      /\ DOMAIN e = UNION {DOMAIN g : g \in {x \in Range(given) : x.name = e.name}}
                      /\ \A key \in DOMAIN e \ {"name"} :
                            e[key] = SumField(given, e.name, key, Len(given))

\* 5 + 10 = 15 in collectionData, and registered, sessions and attendance each
\* summed on their own in summerReadingData
C8_Witness ==
    /\ mOut # <<>>
    /\ Section(mOut[1], "collectionData") = <<[name |-> "Adult Fiction", value |-> 15]>>
    /\ Section(mOut[1], "summerReadingData") =
          <<[name |-> "Children", registered |-> 15, sessions |-> 14, attendance |-> 472]>>
    /\ Len(mIn) = 3

\* the first input record that has a section
FirstWith(rs, prop) == CHOOSE n \in 1..Len(rs) :
                          Has(rs[n], prop) /\ \A m \in 1..(n - 1) : ~Has(rs[m], prop)

(* C9: a merged scalar-group section is, whole and unchanged, the section of *)
(* the first input record that has it, and is absent if none has it.         *)
C9_FirstScalarSectionWins ==
    mOut # <<>> =>
        \A p \in 1..Len(scalarProps) :
            LET prop == scalarProps[p]
            IN  IF \E n \in 1..Len(mIn) : Has(mIn[n], prop)
                THEN Has(mOut[1], prop) /\ mOut[1][prop] = mIn[FirstWith(mIn, prop)][prop]
                ELSE ~Has(mOut[1], prop)

\* the first overview lacks annualVisits, a later one has it, and the merged
\* overview is the first one, without annualVisits
C9_Witness ==
    /\ mOut # <<>>
    /\ Len(mIn) = 3
    /\ ~Has(mIn[1], "libraryOverview")
    /\ mIn[2] = [libraryOverview |-> OverviewX]
    /\ Has(mIn[3], "libraryOverview") /\ mIn[3].libraryOverview = OverviewY
    /\ mOut[1].libraryOverview = OverviewX

(* C10: no two entries of a merged category-breakdown section have the same  *)
(* name.                                                                     *)
C10_NamesUnique ==
    mOut # <<>> =>
        \A p \in 1..Len(arrayProps) :
            LET out == Section(mOut[1], arrayProps[p])
            IN  \A m, n \in 1..Len(out) : m # n => out[m].name # out[n].name

\* a name repeated inside one chunk and again in a later chunk is one entry
C10_Witness ==
    /\ mOut # <<>>
    /\ \E n \in 1..Len(mIn) : mIn[n] = [collectionData |-> <<A1, A2>>]
    /\ \E n \in 1..Len(mIn) : mIn[n] = [collectionData |-> <<A2, B1>>]
    /\ Len(mOut[1].collectionData) = 2

\* all strings of one findings list over the input records, in input order
RECURSIVE AllFindings(_, _, _)
AllFindings(rs, listName, n) ==
    IF n = 0 THEN <<>>
    ELSE IF Has(rs[n], "keyFindings") /\ Has(rs[n].keyFindings, listName)
         THEN AllFindings(rs, listName, n - 1) \o rs[n].keyFindings[listName]
         ELSE AllFindings(rs, listName, n - 1)

\* the position at which x first appears in list
FirstIndex(list, x) ==
    CHOOSE i \in 1..Len(list) : list[i] = x /\ \A j \in 1..(i - 1) : list[j] # x

\* out lists, in order of first appearance and without repetition, the first
\* cap distinct elements of list
IsFirstDistinct(out, list, cap) ==
    /\ Range(out) \subseteq Range(list)
    /\ Len(out) = IF Cardinality(Range(list)) < cap THEN Cardinality(Range(list)) ELSE cap
    /\ \A m, n \in 1..Len(out) :
          m < n => FirstIndex(list, out[m]) < FirstIndex(list, out[n])
    /\ \A x \in Range(list) \ Range(out) :
          \A m \in 1..Len(out) : FirstIndex(list, out[m]) < FirstIndex(list, x)

(* C11: each merged findings list is the first five distinct strings, by     *)
(* exact identity, in order of first appearance across the input records in  *)
(* input order; strengths depends on the strengths lists only and            *)
(* areasForDevelopment on the areasForDevelopment lists only.                *)
C11_FirstFiveDistinct ==
    (mOut # <<>> /\ \E n \in 1..Len(mIn) : Has(mIn[n], "keyFindings")) =>
        /\ Has(mOut[1], "keyFindings")
        /\ DOMAIN mOut[1].keyFindings = {"strengths", "areasForDevelopment"}
        /\ \A listName \in {"strengths", "areasForDevelopment"} :
              IsFirstDistinct(mOut[1].keyFindings[listName],
                              AllFindings(mIn, listName, Len(mIn)), FindingsCap)

\* seven distinct strengths over three records, "funding" and "Funding" among
\* them, "funding" and "programs" repeated: five are kept
C11_Witness ==
    /\ mOut # <<>>
    /\ Cardinality(Range(AllFindings(mIn, "strengths", Len(mIn)))) = 7
    /\ Len(AllFindings(mIn, "strengths", Len(mIn))) = 9
    /\ mOut[1].keyFindings.strengths = <<"funding", "programs", "Funding", "visits", "hours">>
    /\ mOut[1].keyFindings.areasForDevelopment = <<"virtual", "space">>

\* the sections that at least one input record contains
Contained(rs) == UNION {DOMAIN rs[n] \cap sectionKeys : n \in 1..Len(rs)}

\* the record processReportWithAI builds from the merged record
FinalOf(merged) == FinalReportData(ReportId, LibraryName(LibraryDoc), ReportDoc.year, merged)

(* C12 as stated: a section that no input record contains is absent from the *)
(* record built for the result store, and input records that between them    *)
(* contain exactly libraryOverview and collectionData yield a record with    *)
(* exactly those two sections.                                               *)
C12_ExactlyContainedSections ==
    mOut # <<>> =>
        /\ \A k \in sectionKeys \ Contained(mIn) :
              ~Has(mOut[1], k) /\ FinalOf(mOut[1])[k] = <<>>
        /\ Contained(mIn) = {"libraryOverview", "collectionData"} =>
              DOMAIN mOut[1] = {"libraryOverview", "collectionData"}

(* C12 amended: a section that no input record contains is absent from the   *)
(* merged record, and in the record built for the result store its key holds *)
(* no value (undefined), never zero, an empty list or a placeholder.  A      *)
(* scalar group or the findings section is present exactly if some record    *)
(* contains it; a category breakdown is present exactly if some record       *)
(* contains it with at least one entry, so a breakdown that the records      *)
(* contain only as empty lists is absent as well.                            *)
C12_AbsentSectionsOmitted ==
    mOut # <<>> =>
        /\ DOMAIN mOut[1] \subseteq Contained(mIn)
        /\ \A k \in sectionKeys :
              /\ Has(mOut[1], k) <=>
                    \E n \in 1..Len(mIn) :
                       /\ Has(mIn[n], k)
                       /\ k \in Range(arrayProps) => Len(mIn[n][k]) > 0
              /\ FinalOf(mOut[1])[k] = IF Has(mOut[1], k) THEN <<mOut[1][k]>> ELSE <<>>
              /\ (k \in Range(arrayProps) /\ Has(mOut[1], k)) => Len(mOut[1][k]) > 0

\* records with libraryOverview and collectionData only: exactly those two
\* sections in the result, no value under any other section key
C12_Witness ==
    /\ mOut # <<>>
    /\ mIn = <<[libraryOverview |-> OverviewX], [collectionData |-> <<>>],
               [collectionData |-> <<A2, B1>>]>>
    /\ DOMAIN mOut[1] = {"libraryOverview", "collectionData"}
    /\ \A k \in sectionKeys \ {"libraryOverview", "collectionData"} :
          FinalOf(mOut[1])[k] = <<>>
    /\ FinalOf(mOut[1]).collectionData = << <<A2, B1>> >>

\* the names of a list of entries, in order
Names(items) == [n \in 1..Len(items) |-> items[n].name]

(* C13: the entries of a merged category breakdown are in the order in which *)
(* their names first appear over the input records in input order; when no   *)
(* name occurs twice in the input, the merged section is the concatenation   *)
(* of the input sections, every entry unchanged.                             *)
C13_FirstSeenOrder ==
    mOut # <<>> =>
        \A p \in 1..Len(arrayProps) :
            LET given == AllItems(mIn, arrayProps[p], Len(mIn))
                out   == Section(mOut[1], arrayProps[p])
            IN  /\ IsFirstDistinct(Names(out), Names(given), Len(given))
                /\ Cardinality(Range(Names(given))) = Len(given) => out = given

\* A = [Adult Fiction, Video Materials] and B = [Audio Materials, Other
\* Materials] have no name in common: [A, B] merges to A's entries followed by
\* B's, the zero of Other Materials included
C13_Witness ==
    /\ mOut # <<>>
    /\ Len(mIn) = 2
    /\ mIn[1] = [collectionData |-> <<A2, B1>>]
    /\ DOMAIN mIn[2] = {"collectionData"}
    /\ Names(mIn[2].collectionData) = <<"Audio Materials", "Other Materials">>
    /\ mOut[1].collectionData = mIn[1].collectionData \o mIn[2].collectionData
    /\ Len(mOut[1].collectionData) = 4

\* rs with the empty record {} inserted after its first n records
InsertEmpty(rs, n) == SubSeq(rs, 1, n) \o << <<>> >> \o SubSeq(rs, n + 1, Len(rs))

(* C25: an empty partial record changes nothing: with {} inserted at any     *)
(* position of the input sequence, in front and at the end included,         *)
(* mergeResults returns the same merged record.                              *)
C25_EmptyRecordIsNeutral ==
    mOut # <<>> =>
        \A n \in 0..Len(mIn) : mergeResults(InsertEmpty(mIn, n)) = mOut[1]

\* two records that share a name and a scalar group: the merge is the same
\* with {} in front, between or behind them
C25_Witness ==
    /\ mOut # <<>>
    /\ mIn = <<[libraryOverview |-> OverviewX],
               [libraryOverview |-> OverviewY, collectionData |-> <<A2>>,
                summerReadingData |-> <<SummerAtt>>]>>
    /\ mOut[1].libraryOverview = OverviewX
    /\ mergeResults(<<mIn[1], <<>>, mIn[2]>>) = mOut[1]
    /\ mergeResults(<< <<>> >>) = <<>>

\* the input records in the order given by the permutation f of their positions
Permuted(rs, f) == [n \in 1..Len(rs) |-> rs[f[n]]]

(* C30: for every permutation of the input records and every category       *)
(* breakdown, the merged entries are the same as a set: the same names, and  *)
(* under each name the same numeric fields with the same totals.  Only their *)
(* order in the section may differ.                                          *)
C30_PermutationInvariant ==
    mOut # <<>> =>
        \A f \in Permutations(1..Len(mIn)) :
            LET other == mergeResults(Permuted(mIn, f))
            IN  \A p \in 1..Len(arrayProps) :
                   /\ Range(Section(other, arrayProps[p])) = Range(Section(mOut[1], arrayProps[p]))
                   /\ Len(Section(other, arrayProps[p])) = Len(Section(mOut[1], arrayProps[p]))

\* three records in an order whose reverse merges to the same two entries,
\* Adult Fiction 20 and Video Materials 3, in the other order
C30_Witness ==
    /\ mOut # <<>>
    /\ mIn = <<[collectionData |-> <<B0, A1>>], [collectionData |-> <<A2, B1>>],
               [collectionData |-> <<A2>>, libraryOverview |-> OverviewY,
                summerReadingData |-> <<SummerAtt>>]>>
    /\ mOut[1].collectionData = <<[name |-> "Video Materials", value |-> 3],
                                  [name |-> "Adult Fiction", value |-> 20]>>
    /\ mergeResults(<<mIn[3], mIn[2], mIn[1]>>).collectionData =
          <<[name |-> "Adult Fiction", value |-> 20],
            [name |-> "Video Materials", value |-> 3]>>

----------------------------------------------------------------------------
(* Properties of splitTextIntoChunks, on the stand-alone call *)

\* the pieces of a list one after the other, nothing in between
RECURSIVE Concat(_)
Concat(parts) == IF parts = <<>> THEN <<>> ELSE Head(parts) \o Concat(Tail(parts))

\* the paragraphs of every chunk, in chunk order
RECURSIVE ParagraphsOf(_)
ParagraphsOf(chunks) ==
    IF chunks = <<>> THEN <<>> ELSE split(Head(chunks)) \o ParagraphsOf(Tail(chunks))

IsNonEmpty(part) == part # <<>>

NonEmpty(parts) == SelectSeq(parts, IsNonEmpty)

\* the budget in characters
MaxChars == tMax * charsPerToken

(* C14 as stated: the chunks, concatenated in order, are the input text.     *)
C14_ConcatReproducesText ==
    (tOut # <<>> /\ tMax > 0) => Concat(tOut[1]) = tIn

(* C14 amended: the chunks, concatenated in order, are the input text        *)
(* without its blank-line separators: the characters of its paragraphs, in   *)
(* order, none lost, added or moved.  The separators themselves are not      *)
(* reproduced: none is kept between two chunks, so that with two or more     *)
(* chunks the concatenation is shorter than the text by at least two         *)
(* characters per chunk boundary, and inside a chunk every separator is      *)
(* "\n\n" whatever it was in the text.                                       *)
C14_ConcatReproducesParagraphs ==
    (tOut # <<>> /\ tMax > 0) =>
        LET chunks == tOut[1]
        IN  /\ Concat(split(Concat(chunks))) = Concat(split(tIn))
            /\ Concat(ParagraphsOf(chunks)) = Concat(split(tIn))
            /\ Len(chunks) >= 2 =>
                  Len(Concat(chunks)) + 2 * (Len(chunks) - 1) <= Len(tIn)
            /\ \A n \in 1..Len(chunks) :
                  \A q \in 1..Len(chunks[n]) :
                     MatchEnd(chunks[n], q) \in {0, q + 1}

\* "aaa\n\naa" under a budget of 4 characters: the chunks "aaa" and "aa", which
\* concatenate to "aaaaa"
C14_Witness ==
    /\ tOut # <<>> /\ tMax = 1
    /\ tIn = <<"a", "a", "a", "nl", "nl", "a", "a">>
    /\ tOut[1] = << <<"a", "a", "a">>, <<"a", "a">> >>
    /\ Concat(tOut[1]) # tIn

\* the chunks that hold a paragraph longer than the budget
Oversized(chunks) ==
    {n \in 1..Len(chunks) : \E k \in 1..Len(split(chunks[n])) :
                               Len(split(chunks[n])[k]) > MaxChars}

(* C15: every chunk is made of whole paragraphs of the text: the non-empty   *)
(* paragraphs of the chunks, taken in chunk order, are exactly the non-empty *)
(* paragraphs of the text, so no chunk boundary falls inside a paragraph;    *)
(* and a paragraph longer than the budget is not split but is a chunk by     *)
(* itself.                                                                   *)
C15_WholeParagraphs ==
    (tOut # <<>> /\ tMax > 0) =>
        LET chunks == tOut[1]
        IN  /\ NonEmpty(ParagraphsOf(chunks)) = NonEmpty(split(tIn))
            /\ \A n \in Oversized(chunks) : split(chunks[n]) = <<chunks[n]>>
            /\ \A k \in 1..Len(split(tIn)) :
                  Len(split(tIn)[k]) > MaxChars =>
                     \E n \in 1..Len(chunks) : chunks[n] = split(tIn)[k]

\* a paragraph of five characters under a budget of four, then "a": the long
\* paragraph is a chunk by itself and "a" starts the next chunk
C15_Witness ==
    /\ tOut # <<>> /\ tMax = 1
    /\ tIn = <<"a", "a", "a", "a", "a", "nl", "nl", "a">>
    /\ tOut[1] = << <<"a", "a", "a", "a", "a">>, <<"a">> >>

(* C16 as stated: for every input text the result has at least one chunk.    *)
C16_NonEmptyResult ==
    tOut # <<>> => Len(tOut[1]) > 0

(* C16 amended: the result has at least one chunk exactly if the text has a  *)
(* non-empty paragraph, and no chunk is empty.  For the empty string, and    *)
(* for a text that is nothing but one blank-line separator, the result is    *)
(* the empty sequence.                                                       *)
C16_NonEmptyChunks ==
    tOut # <<>> =>
        /\ Len(tOut[1]) > 0 <=> NonEmpty(split(tIn)) # <<>>
        /\ \A n \in 1..Len(tOut[1]) : tOut[1][n] # <<>>
        /\ tIn = <<>> => tOut[1] = <<>>
        /\ (Len(tIn) > 0 /\ MatchEnd(tIn, 1) = Len(tIn)) => tOut[1] = <<>>
        /\ (Len(tIn) > 0 /\ MatchEnd(tIn, 1) # Len(tIn)) => Len(tOut[1]) > 0

\* the empty string has no chunk
C16_Witness ==
    /\ tOut = << <<>> >>
    /\ tIn = <<>>

----------------------------------------------------------------------------
(* Properties of the parsing step of callClaudeAPI *)

\* the spans of a response text that parse as a payload
Payloads(content) ==
    {span \in (1..Len(content)) \X (1..Len(content)) :
        span[1] <= span[2] /\ JSONParse(SubSeq(content, span[1], span[2])) # <<>>}

\* the payload that starts first
FirstPayload(content) ==
    CHOOSE span \in Payloads(content) : \A other \in Payloads(content) : span[1] <= other[1]

(* C20: the parsing step returns the parse of the first span of the response *)
(* text that is a well-formed payload, and throws only if no span of the     *)
(* text is one.                                                              *)
C20_FirstPayloadParsed ==
    cOut # <<>> =>
        IF Payloads(cIn) # {}
        THEN cOut[1] = [returns |->
                          JSONParse(SubSeq(cIn, FirstPayload(cIn)[1], FirstPayload(cIn)[2]))]
        ELSE cOut[1] = [throws |-> "Failed to parse Claude response as JSON"]

C24_RejectsNonPositiveBudget ==
    tOut # <<>> => tMax > 0

(* C24 amended: the function has no failure mode at all.  With a budget that *)
(* is not positive it returns, as it does for any budget, and its chunks are *)
(* then the non-empty paragraphs of the text, one chunk each.                *)
C24_NonPositiveBudgetSplitsEveryParagraph ==
    (tOut # <<>> /\ tMax <= 0) =>
        /\ tOut[1] = NonEmpty(split(tIn))
        /\ tOut[1] = splitTextIntoChunks(tIn, 0)

\* a budget of zero and two short paragraphs: two chunks
C24_Witness ==
    /\ tOut # <<>> /\ tMax = 0
    /\ tIn = <<"a", "nl", "sp", "nl", "a", "sp", "a">>
    /\ tOut[1] = << <<"a">>, <<"a", "sp", "a">> >>

(* C21: within one run callClaudeAPI is called exactly once per chunk, in    *)
(* chunk order, one call at a time: the n-th call of a run is the one for    *)
(* chunk n, it is made from the loop with n - 1 calls settled, and whether   *)
(* it returns or throws the run stays in the loop with the next chunk as its *)
(* position, so a failed chunk is not tried again and does not stop the      *)
(* chunks after it; when the loop is left every chunk was tried once.        *)
C21_OneCallPerChunkInOrder ==
    /\ [](\A r \in Runs :
             /\ Len(attempts[r]) = chunkIdx[r]
             /\ Len(attempts[r]) <= pdfChunks
             /\ pc[r] = "setCompleted" => Len(attempts[r]) = pdfChunks
             /\ results[r] = SuccessfulRecords(attempts[r], Len(attempts[r])))
    /\ [][ \A r \in Runs :
             (attempts'[r] # attempts[r] /\ ~Settled(r)) =>
                /\ pc[r] = "chunks" /\ pc'[r] = "chunks"
                /\ chunkIdx[r] < pdfChunks
                /\ Len(attempts'[r]) = Len(attempts[r]) + 1
                /\ SubSeq(attempts'[r], 1, Len(attempts[r])) = attempts[r]
                /\ chunkIdx'[r] = chunkIdx[r] + 1
                /\ error'[r] = <<>>
                /\ results'[r] = IF Last(attempts'[r])
                                 THEN Append(results[r], ChunkRecords[chunkIdx[r] + 1])
                                 ELSE results[r] ]_vars
    /\ [][ \A r \in Runs :
             (pc[r] = "chunks" /\ pc'[r] # "chunks") => Len(attempts[r]) = pdfChunks ]_vars

\* the call for the first of two chunks failed and the call for the second
\* was made all the same, once each
C21_Witness ==
    \E r \in Runs :
        /\ pc[r] = "chunks"
        /\ pdfChunks = 2
        /\ attempts[r] = <<FALSE, TRUE>>
        /\ chunkIdx[r] = 2
        /\ results[r] = <<ChunkRecords[2]>>

\* the positions of a run at or after its read of reports/<id>, inside the try
AfterProcessing == {"getReport", "getLibrary", "download", "chunks", "setCompleted"}

(* C22: the first external operation of a run is its updateDoc of status     *)
(* Processing: the first status write a run makes is that one, made while    *)
(* the run has read nothing, called callClaudeAPI for no chunk and handed    *)
(* nothing to setDoc; a run is at or past its read of reports/<id> only with *)
(* that write done and applied; and a run whose Processing write was         *)
(* rejected goes to the catch block without any read or oracle call.         *)
C22_ProcessingWrittenFirst ==
    /\ [](\A r \in Runs :
             /\ writes[r] # <<>> => writes[r][1].status = "Processing"
             /\ pc[r] \in AfterProcessing =>
                   (writes[r] # <<>> /\ writes[r][1] = [status |-> "Processing", ok |-> TRUE])
             /\ (attempts[r] # <<>> \/ handed[r] # <<>>) =>
                   (writes[r] # <<>> /\ writes[r][1] = [status |-> "Processing", ok |-> TRUE])
             /\ (writes[r] # <<>> /\ ~writes[r][1].ok) =>
                   (/\ attempts[r] = <<>> /\ handed[r] = <<>>
                    /\ error[r] = <<"updateDoc failed">>)
             /\ pc[r] = "setProcessing" =>
                   (writes[r] = <<>> /\ attempts[r] = <<>> /\ handed[r] = <<>>))
    /\ [][ \A r \in Runs :
             (writes[r] = <<>> /\ writes'[r] # <<>>) =>
                /\ pc[r] = "setProcessing"
                /\ pc'[r] = (IF writes'[r][1].ok THEN "getReport" ELSE "catch")
                /\ writes'[r][1].ok => (status' = "Processing" /\ statusBy' = <<r>>) ]_vars
    /\ [][ \A r \in Runs :
             (pc[r] = "idle" /\ pc'[r] # "idle") =>
                (pc'[r] = "setProcessing" /\ UNCHANGED <<status, statusBy, reportData>>) ]_vars

\* run q has completed; run r, started afterwards, has turned the record back
\* to Processing and is about to read reports/<id>
C22_Witness ==
    \E q, r \in Runs :
        /\ Settled(q) /\ returned[q] = <<"true">>
        /\ pc[r] = "getReport"
        /\ writes[r] = <<[status |-> "Processing", ok |-> TRUE]>>
        /\ attempts[r] = <<>> /\ handed[r] = <<>>
        /\ status = "Processing" /\ statusBy = <<r>>

\* run r has a call of setDoc resolved in this step
StoresData(r) ==
    /\ handed[r] = <<>>
    /\ handed'[r] # <<>>
    /\ handed'[r][1].stored

\* the variables local to run r
Locals(r) ==
    <<pc[r], chunkIdx[r], results[r], error[r], returned[r], attempts[r], handed[r],
      writes[r]>>

(* C26: runs for the same report are independent and every write is          *)
(* last-write-wins.  A call is accepted whatever the other run is doing, a   *)
(* step of one run leaves the other run's position and locals alone, every   *)
(* updateDoc that resolves sets the status to the value written and every    *)
(* setDoc that resolves replaces reportData/<id> by the document handed in,  *)
(* whatever was there and whoever wrote it, and nothing else changes them.   *)
(* So once both runs have returned, the status is that of the last resolved  *)
(* status write and the stored document that of the last resolved setDoc.    *)
C26_LastWriteWins ==
    /\ [][ \A r \in Runs :
             /\ (Len(writes'[r]) = Len(writes[r]) + 1 /\ Last(writes'[r]).ok) =>
                   (status' = Last(writes'[r]).status /\ statusBy' = <<r>>)
             /\ StoresData(r) => reportData' = <<handed'[r][1].doc>>
             /\ Locals(r)' # Locals(r) =>
                   \A q \in Runs \ {r} : Locals(q)' = Locals(q) ]_vars
    /\ [][ /\ status' # status => \E r \in Runs : WritesStatus(r)
           /\ reportData' # reportData => \E r \in Runs : StoresData(r) ]_vars
    /\ [](\A r \in Runs :
             /\ (statusBy = <<r>> /\ WrittenBy(r) # <<>>) => status = Last(WrittenBy(r))
             /\ returned[r] \in {<<>>, <<"true">>, <<"false">>})
    /\ []((\A r \in Runs : Settled(r)) =>
             /\ (statusBy # <<>> /\ WrittenBy(statusBy[1]) # <<>>) =>
                   status = Last(WrittenBy(statusBy[1]))
             /\ reportData # <<>> \/ \A r \in Runs : ~Stored(r))

\* both runs overlapped and both returned true: the stored document is the
\* one of r, which stored last, and the status is the Completed of q, which
\* wrote its status last
C26_Witness ==
    \E q, r \in Runs :
        /\ q # r /\ Settled(q) /\ Settled(r)
        /\ returned[q] = <<"true">> /\ returned[r] = <<"true">>
        /\ handed[q][1].doc # handed[r][1].doc
        /\ reportData = <<handed[r][1].doc>>
        /\ status = "Completed" /\ statusBy = <<q>>

\* doc is an object as processReportWithAI builds it for reportData/<id>
IsFinalRecord(doc) ==
    /\ DOMAIN doc = {"reportId", "libraryName", "year"} \cup sectionKeys
    /\ doc.reportId = ReportId
    /\ doc.year = ReportDoc.year

(* C27: whenever the status of reports/<id> is Completed, reportData/<id>    *)
(* holds a document built by processReportWithAI for this report, whatever   *)
(* the number of runs and the interleaving of their steps; a run has written *)
(* Completed only with its own setDoc resolved before.                       *)
C27_CompletedHasRecord ==
    /\ status = "Completed" => (reportData # <<>> /\ IsFinalRecord(reportData[1]))
    /\ \A r \in Runs :
          (\E n \in 1..Len(writes[r]) : writes[r][n] = [status |-> "Completed", ok |-> TRUE])
              => (Stored(r) /\ reportData # <<>>)

\* the status is the Completed of run q while run r, which stored its own
\* document over that of q, has not written a status since
C27_Witness ==
    \E q, r \in Runs :
        /\ q # r
        /\ Settled(q) /\ returned[q] = <<"true">>
        /\ pc[r] = "setCompleted"
        /\ status = "Completed" /\ statusBy = <<q>>
        /\ reportData = <<handed[r][1].doc>>
        /\ handed[r][1].doc # handed[q][1].doc

\* the errors thrown before the setDoc of the run: by the two reads, the
\* download and the text extraction
EarlyFatalErrors ==
    { "getDoc failed", "Report not found", "Library not found",
      "fetch failed", "Failed to download PDF", "pdfParse failed" }

\* run r has failed, or is failing, on an error thrown before its setDoc
FailedEarly(r) == error[r] # <<>> /\ error[r][1] \in EarlyFatalErrors

(* C28 as stated: a run that hit a fatal error before its persistence step   *)
(* (report or library missing, download failure, text-extraction failure)    *)
(* has, when it returns, made no setDoc call and turned the status to        *)
(* Failed.                                                                   *)
C28_NoRecordWriteAndFailed ==
    \A r \in Runs :
        (Settled(r) /\ FailedEarly(r)) =>
            /\ handed[r] = <<>>
            /\ Last(writes[r]) = [status |-> "Failed", ok |-> TRUE]

(* C28 amended: a run that hits a fatal error before its persistence step    *)
(* makes no setDoc call: none of its steps up to the error, and neither the  *)
(* catch block nor the return after it, changes reportData/<id>, so a        *)
(* document stored by an earlier run stays as it is.  The catch block        *)
(* attempts the write of Failed: the status becomes Failed when that write   *)
(* is applied and is left as it was when the write is rejected.              *)
C28_EarlyFailureKeepsRecord ==
    /\ [](\A r \in Runs : FailedEarly(r) => (handed[r] = <<>> /\ attempts[r] = <<>>))
    /\ [][ \A r \in Runs :
             (/\ Locals(r)' # Locals(r)
              /\ \/ pc[r] \in {"setProcessing", "getReport", "getLibrary", "download"}
                 \/ pc[r] \in {"catch", "settled"} /\ FailedEarly(r))
                => reportData' = reportData ]_vars
    /\ [][ \A r \in Runs :
             (pc[r] = "catch" /\ pc'[r] # "catch" /\ FailedEarly(r)) =>
                /\ Len(writes'[r]) = Len(writes[r]) + 1
                /\ Last(writes'[r]).status = "Failed"
                /\ returned'[r] = <<"false">>
                /\ IF Last(writes'[r]).ok
                   THEN status' = "Failed" /\ statusBy' = <<r>>
                   ELSE status' = status /\ statusBy' = statusBy ]_vars

\* run q completed and stored its document; run r, started afterwards, found
\* no library, and the record is Failed over the document of q
C28_Witness ==
    \E q, r \in Runs :
        /\ q # r
        /\ Settled(q) /\ returned[q] = <<"true">>
        /\ Settled(r) /\ error[r] = <<"Library not found">>
        /\ handed[r] = <<>>
        /\ status = "Failed" /\ statusBy = <<r>>
        /\ reportData = <<handed[q][1].doc>>

\* run r has had its update of the status to Completed applied
WroteCompleted(r) ==
    \E n \in 1..Len(writes[r]) : writes[r][n] = [status |-> "Completed", ok |-> TRUE]

(* C29: processReportWithAI returns true exactly when its update of the      *)
(* status to Completed was applied.  When it returns false, no status write  *)
(* of the run that was applied is one of Completed: the last one applied, if *)
(* there is any, is of Processing or of Failed.  A run that has not returned *)
(* yet has not written Completed.                                            *)
C29_TrueIffCompletedWritten ==
    \A r \in Runs :
        /\ Settled(r) => (returned[r] = <<"true">> <=> WroteCompleted(r))
        /\ ~Settled(r) => ~WroteCompleted(r)
        /\ returned[r] = <<"false">> =>
              /\ "Completed" \notin Range(WrittenBy(r))
              /\ WrittenBy(r) # <<>> => Last(WrittenBy(r)) \in {"Processing", "Failed"}
              /\ error[r] # <<>>

\* the update to Completed was rejected after the document was stored: the
\* run wrote Failed and returned false
C29_Witness ==
    \E r \in Runs :
        /\ Settled(r) /\ returned[r] = <<"false">>
        /\ Stored(r)
        /\ writes[r] = << [status |-> "Processing", ok |-> TRUE],
                          [status |-> "Completed", ok |-> FALSE],
                          [status |-> "Failed", ok |-> TRUE] >>
        /\ status = "Failed"

====
